---- MODULE Spec2Model ----
(***************************************************************************)
(* A model of dashproxy.py: the DashProxy controller (manifest refresh     *)
(* loop, representation selection, downloader registry, output manifest)   *)
(* and the DashDownloader (initialization segment, timeline mode, number   *)
(* mode).                                                                  *)
(*                                                                         *)
(* Conventions.                                                            *)
(*  - An XML element is a record; its attribute dictionary `attrib` is a   *)
(*    function whose domain is the set of attributes present, so that      *)
(*    attrib.get(key, default) is Get(attrib, key, default).               *)
(*  - The children with one tag are a sequence; find() is that sequence    *)
(*    (empty = None, else its head), findall() is the sequence.            *)
(*  - Strings that the code searches or rewrites (URLs, templates,         *)
(*    durations) are sequences of tokens; Join gives the string.           *)
(*  - Numeric attribute values are integers (int('12') is 12).             *)
(*  - An uncaught Python exception ends the process: pc = "Crashed".       *)
(***************************************************************************)
EXTENDS Integers, Sequences, FiniteSets, TLC

\* ------------------------------------------------------------- bounds

\* refresh_mpd is entered at most MaxRefresh + 1 times, and the manifest is
\* fetched at most MaxRefresh times
MaxRefresh == 2
\* the repeat counts r of the timeline entries of the live manifests
MaxRepeat == 1
\* the startNumber values of the number-mode manifests
MaxStartNumber == 2
\* how many segment requests of a run the server answers outside 2xx
MaxFailures == 1

\* ------------------------------------------------- program constants

\* DashProxy.retry_interval (a class attribute)
retry_interval == 10
\* the literal of refresh_mpd(after=10) in DashProxy.handle_mpd
refresh_after == 10

\* The names bound at module level of dashproxy.py: what a bare name in a
\* method body can resolve to (besides locals and builtins).
ModuleGlobals ==
    {"os", "errno", "time", "logging", "argparse", "requests", "xml", "copy",
     "colored", "logger", "ns", "datetime", "get_isosplit", "parse_isoduration",
     "Formatter", "ch", "formatter", "baseUrl", "mkdir_p", "RepAddr",
     "MpdLocator", "HasLogger", "DashProxy", "DashDownloader", "run", "main"}

\* ------------------------------------------------------------ helpers

\* dict.get(key, default)
Get(attrib, key, default) == IF key \in DOMAIN attrib THEN attrib[key] ELSE default

\* Element.find(tag): the children with that tag (<<>> is None)
Find(elem, tag) == IF tag \in DOMAIN elem THEN elem[tag] ELSE <<>>

\* ''.join(tokens)
RECURSIVE Join(_)
Join(toks) == IF toks = <<>> THEN "" ELSE Head(toks) \o Join(Tail(toks))

\* the largest index i with toks[i] = tok, 0 when there is none (str.rfind)
RFind(toks, tok) ==
    LET hits == {i \in 1..Len(toks) : toks[i] = tok}
    IN  IF hits = {} THEN 0 ELSE CHOOSE i \in hits : \A j \in hits : j <= i

\* the smallest index i with toks[i] = tok, 0 when there is none (str.find)
LFind(toks, tok) ==
    LET hits == {i \in 1..Len(toks) : toks[i] = tok}
    IN  IF hits = {} THEN 0 ELSE CHOOSE i \in hits : \A j \in hits : i <= j

\* baseUrl(url): the url up to and including its last '/'
baseUrl(url) ==
    LET idx == RFind(url, "/")
    IN  IF idx >= 1 THEN SubSeq(url, 1, idx) ELSE url

\* mkdir_p(path), given what os.makedirs did: "ok", "EEXIST" (the directory
\* is there) or another OSError
mkdir_p(makedirs) ==
    IF makedirs = "ok" THEN TRUE
    ELSE IF makedirs = "EEXIST" THEN TRUE
    ELSE FALSE

\* ------------------------------------------------- parse_isoduration

Digits == <<"0", "1", "2", "3", "4", "5", "6", "7", "8", "9">>

DigitVal(c) == (CHOOSE i \in 1..Len(Digits) : Digits[i] = c) - 1

\* int(n) for n a string of decimal digits
RECURSIVE IntOf(_)
IntOf(cs) ==
    IF cs = <<>> THEN 0
    ELSE 10 * IntOf(SubSeq(cs, 1, Len(cs) - 1)) + DigitVal(cs[Len(cs)])

\* get_isosplit(s, split): <<n, s>>; n is <<"0">> for the default 0
get_isosplit(s, split) ==
    LET i == LFind(s, split)
    IN  IF i > 0
        THEN <<SubSeq(s, 1, i - 1), SubSeq(s, i + 1, Len(s))>>
        ELSE <<(<<"0">>), s>>

\* parse_isoduration(s) in seconds, for durations whose fields are whole
\* numbers, each letter divider occurring at most once
parse_isoduration(str) ==
    LET p   == RFind(str, "P")
        s0  == SubSeq(str, p + 1, Len(str))
        dd  == get_isosplit(s0, "D")
        tt  == get_isosplit(dd[2], "T")
        hh  == get_isosplit(tt[2], "H")
        mm  == get_isosplit(hh[2], "M")
        ss  == get_isosplit(mm[2], "S")
        ms  == get_isosplit(ss[2], ".")
    IN  IntOf(dd[1]) * 86400 + IntOf(hh[1]) * 3600 + IntOf(mm[1]) * 60 + IntOf(ss[1])
            + (IntOf(ms[1]) \div 1000)

\* ---------------------------------------------------------- RepAddr

\* RepAddr(period_idx, adaptation_set_idx, representation_idx): a new object
\* (oid is the object's identity)
RepAddr(oid, period_idx, adaptation_set_idx, representation_idx) ==
    [oid |-> oid, period_idx |-> period_idx,
     adaptation_set_idx |-> adaptation_set_idx,
     representation_idx |-> representation_idx]

\* a mutant of RepAddrEq: two addresses with equal fields are equal
RepAddrEq_ByValue(a, b) ==
    /\ a.period_idx = b.period_idx
    /\ a.adaptation_set_idx = b.adaptation_set_idx
    /\ a.representation_idx = b.representation_idx

\* a == b for two RepAddr objects: the class defines neither __eq__ nor
\* __hash__, so this is object identity
RepAddrEq(a, b) == a.oid = b.oid

\* ------------------------------------------------------- MpdLocator

\* MpdLocator.adaptation_set
adaptation_set(mpd, rep_addr) ==
    Find(Find(mpd, "Period")[rep_addr.period_idx + 1], "AdaptationSet")
        [rep_addr.adaptation_set_idx + 1]

\* MpdLocator.representation
representation(mpd, rep_addr) ==
    Find(adaptation_set(mpd, rep_addr), "Representation")[rep_addr.representation_idx + 1]

\* MpdLocator.segment_template: <<>> (None) or <<the template>>
segment_template(mpd, rep_addr) ==
    LET rep_st == Find(representation(mpd, rep_addr), "SegmentTemplate")
    IN  IF rep_st # <<>> THEN <<Head(rep_st)>>
        ELSE LET as_st == Find(adaptation_set(mpd, rep_addr), "SegmentTemplate")
             IN  IF as_st # <<>> THEN <<Head(as_st)>> ELSE <<>>

\* MpdLocator.segment_template_from_adapt
segment_template_from_adapt(mpd, rep_addr) ==
    LET as_st == Find(adaptation_set(mpd, rep_addr), "SegmentTemplate")
    IN  IF as_st # <<>> THEN <<Head(as_st)>> ELSE <<>>

\* whether segment_template returned the Representation's own template
TemplateIsOwn(mpd, rep_addr) ==
    Find(representation(mpd, rep_addr), "SegmentTemplate") # <<>>

\* MpdLocator.segment_timeline (of a template that is not None)
segment_timeline(mpd, rep_addr) ==
    LET tl == Find(Head(segment_template(mpd, rep_addr)), "SegmentTimeline")
    IN  IF tl # <<>> THEN <<Head(tl)>> ELSE <<>>

\* the S children of the timeline that segment_timeline returns
TimelineS(mpd, rep_addr) == Find(Head(segment_timeline(mpd, rep_addr)), "S")

\* the tree with the S children of that timeline replaced: the in-place
\* mutations of handle_mpd act on the template segment_template returned, the
\* Representation's own or the AdaptationSet's (shared by its representations)
SetTimelineS(mpd, rep_addr, newS) ==
    LET p == rep_addr.period_idx + 1
        a == rep_addr.adaptation_set_idx + 1
        r == rep_addr.representation_idx + 1
    IN  IF TemplateIsOwn(mpd, rep_addr)
        THEN [mpd EXCEPT !.Period[p].AdaptationSet[a].Representation[r]
                              .SegmentTemplate[1].SegmentTimeline[1].S = newS]
        ELSE [mpd EXCEPT !.Period[p].AdaptationSet[a]
                              .SegmentTemplate[1].SegmentTimeline[1].S = newS]

\* ------------------------------------- DashDownloader: timeline mode

\* list.insert(idx, elem), idx counted from 0
InsertAt(children, idx, elem) ==
    IF idx >= Len(children) THEN Append(children, elem)
    ELSE SubSeq(children, 1, idx) \o <<elem>> \o SubSeq(children, idx + 1, Len(children))

\* a mutant of InsertRepeats: the new elements are appended at the end
InsertRepeats_AtEnd(children, idx, repeat, duration) ==
    children \o [j \in 1..(IF repeat > 0 THEN repeat ELSE 0) |-> [attrib |-> [d |-> duration]]]

\* for _ in range(0, repeat): segment_timeline.insert(idx, elem); idx = idx + 1
RECURSIVE InsertRepeats(_, _, _, _)
InsertRepeats(children, idx, repeat, duration) ==
    IF repeat <= 0 THEN children
    ELSE InsertRepeats(InsertAt(children, idx, [attrib |-> [d |-> duration]]), idx + 1, repeat - 1, duration)

\* the loop `for segment in segments` over the copied S list, from its k-th
\* element on, idx being the running insert position
RECURSIVE ExpandFrom(_, _, _, _)
ExpandFrom(children, segments, k, idx) ==
    IF k > Len(segments) THEN children
    ELSE LET duration == Get(segments[k].attrib, "d", 0)
             repeat   == Get(segments[k].attrib, "r", 0)
             idx1     == idx + 1
         IN  ExpandFrom(InsertRepeats(children, idx1, repeat, duration), segments, k + 1,
                        idx1 + (IF repeat > 0 THEN repeat ELSE 0))

\* the S children after the expansion loop
ExpandTimeline(children) == ExpandFrom(children, children, 1, 0)

\* ------------------------------------------- template rendering

\* DashDownloader.render_template: the tokens of dest. representation is an
\* element; segment is <<>> (None) or <<an S element>>
render_template(template, rep, segment) ==
    [i \in 1..Len(template) |->
        IF template[i] = "$RepresentationID$" THEN Get(rep.attrib, "id", "")
        ELSE IF template[i] = "$Bandwidth$" THEN Get(rep.attrib, "bandwidth", "")
        ELSE IF template[i] = "$Time$" THEN ToString(Get(Head(segment).attrib, "t", ""))
        ELSE template[i]]

\* template.format(**args) raises KeyError: a {time} field and no segment
RenderKeyError(template, segment) ==
    segment = <<>> /\ \E i \in 1..Len(template) : template[i] = "$Time$"

\* DashDownloader.get_relative_file_path: dest without its query part
get_relative_file_path(dest) ==
    LET query_part_start_pos == RFind(dest, "?")
    IN  IF query_part_start_pos # 0 THEN SubSeq(dest, 1, query_part_start_pos - 1) ELSE dest

\* DashDownloader.full_url
full_url(mpd_base_url, dest) == Join(mpd_base_url) \o Join(dest)

\* the placeholders that are still $...$ fields after $RepresentationID$ and
\* $Bandwidth$ were substituted in number mode
NumberFields == {"$Number$", "$Number%03d$", "$Time$"}

\* '{Number:03d}'.format(Number = index)
ZeroPad3(index) ==
    IF index < 10 THEN "00" \o ToString(index)
    ELSE IF index < 100 THEN "0" \o ToString(index)
    ELSE ToString(index)

\* number mode: media_template after the substitutions of $RepresentationID$
\* and $Bandwidth$, with its first $...$ pair turned into a format field, then
\* .format(Number = index); a later $...$ pair stays as it is
NumberDest(media_template, rep, index) ==
    LET subst == [i \in 1..Len(media_template) |->
                    IF media_template[i] = "$RepresentationID$" THEN Get(rep.attrib, "id", "")
                    ELSE IF media_template[i] = "$Bandwidth$" THEN Get(rep.attrib, "bandwidth", "")
                    ELSE media_template[i]]
        fields == {i \in 1..Len(subst) : subst[i] \in NumberFields}
        first  == IF fields = {} THEN 0 ELSE CHOOSE i \in fields : \A j \in fields : i <= j
    IN  [i \in 1..Len(subst) |->
            IF i = first /\ subst[i] = "$Number$" THEN ToString(index)
            ELSE IF i = first /\ subst[i] = "$Number%03d$" THEN ZeroPad3(index)
            ELSE subst[i]]

\* media_template.format(Number = index) raises KeyError: the first field is
\* not Number
NumberKeyError(media_template) ==
    LET fields == {i \in 1..Len(media_template) : media_template[i] \in NumberFields}
    IN  fields # {} /\ media_template[CHOOSE i \in fields : \A j \in fields : i <= j] = "$Time$"

\* int(mediaPresentationDurationInSec / (fDuration / fTimescale)) for positive
\* operands, in the range where the double division is exact to the unit
fNumbersOf(mediaPresentationDurationInSec, fDuration, fTimescale) ==
    (mediaPresentationDurationInSec * fTimescale) \div fDuration

\* ------------------------------------------------------------ inputs

\* the mpd argument of the command line (DashProxy.mpd)
MpdUrl == <<"http:", "/", "/", "origin", "/", "live", "/", "stream.mpd">>

\* the -m argument (DashProxy.mime_type); '' is the default
MimeTypes == {"", "video/mp4"}

InitTemplate == <<"$RepresentationID$", "_init.mp4">>
TimeMedia    == <<"$RepresentationID$", "_t", "$Time$", ".m4s">>
NumberMedia  == <<"$RepresentationID$", "_", "$Number$", ".m4s">>

Rep(id, bandwidth) == [attrib |-> [id |-> id, bandwidth |-> bandwidth]]

RepWithTemplate(id, bandwidth, tmpl) ==
    [attrib |-> [id |-> id, bandwidth |-> bandwidth], SegmentTemplate |-> <<tmpl>>]

\* the root attributes: minimumUpdatePeriod is absent when mup is <<>>
RootAttrib(mup, duration) ==
    IF mup = <<>> THEN [mediaPresentationDuration |-> duration]
    ELSE [mediaPresentationDuration |-> duration, minimumUpdatePeriod |-> Head(mup)]

PT12S == <<"P", "T", "1", "2", "S">>

\* A number-mode manifest of 12 seconds: one video AdaptationSet whose template
\* sets timescale 1, duration 4 and startNumber sn, and one representation v0
\* that inherits it. The live variant declares an initialization segment.
\* The root has a relative <BaseURL>media/</BaseURL>.
NumberManifest(mup, sn) ==
    LET base == [media |-> NumberMedia, timescale |-> 1, duration |-> 4, startNumber |-> sn]
        attr == IF mup = <<"PT10S">>
                THEN [media |-> NumberMedia, timescale |-> 1, duration |-> 4,
                      startNumber |-> sn, initialization |-> InitTemplate]
                ELSE base
    IN  [attrib |-> RootAttrib(mup, PT12S),
         BaseURL |-> <<[text |-> <<"media", "/">>]>>,
         Period |-> <<
           [AdaptationSet |-> <<
              [attrib |-> [mimeType |-> "video/mp4"],
               SegmentTemplate |-> <<[attrib |-> attr]>>,
               Representation |-> <<Rep("v0", "500000")>>]
           >>]
         >>]

\* A number-mode manifest whose AdaptationSet carries no SegmentTemplate: the
\* only template is the Representation's own (timescale 1, duration 4, no
\* startNumber).
RepOnlyManifest ==
    [attrib |-> RootAttrib(<<"PT10S">>, PT12S),
     Period |-> <<
       [AdaptationSet |-> <<
          [attrib |-> [mimeType |-> "video/mp4"],
           Representation |-> <<
              RepWithTemplate("v0", "500000",
                 [attrib |-> [media |-> NumberMedia, timescale |-> 1, duration |-> 4]])
           >>]
       >>]
     >>]

\* A timeline-mode manifest: an audio AdaptationSet (one representation
\* with its own timeline: an entry without t repeated r times, an entry with
\* an explicit t, an entry without) before a video AdaptationSet whose two
\* representations share the AdaptationSet's timeline (explicit t, repeat r);
\* a second Period follows. The root has a Location and an absolute BaseURL.
TimelineManifest(mup, r) ==
    [attrib |-> RootAttrib(mup, PT12S),
     Location |-> <<[text |-> <<"http:", "/", "/", "cdn", "/", "a", "/", "stream.mpd">>]>>,
     BaseURL |-> <<[text |-> <<"http:", "/", "/", "cdn", "/", "b", "/">>]>>,
     Period |-> <<
       [AdaptationSet |-> <<
          [attrib |-> [mimeType |-> "audio/mp4"],
           Representation |-> <<
              RepWithTemplate("a0", "64000",
                 [attrib |-> [media |-> TimeMedia],
                  SegmentTimeline |-> <<[S |-> <<[attrib |-> [d |-> 10, r |-> r]],
                                                [attrib |-> [t |-> 50, d |-> 5]],
                                                [attrib |-> [d |-> 5]]>>]>>])
           >>],
          [attrib |-> [mimeType |-> "video/mp4"],
           SegmentTemplate |-> <<
              [attrib |-> [media |-> TimeMedia, initialization |-> InitTemplate],
               SegmentTimeline |-> <<[S |-> <<[attrib |-> [t |-> 100, d |-> 10, r |-> r]]>>]>>]
           >>,
           Representation |-> <<Rep("v0", "500000"), Rep("v1", "900000")>>]
       >>],
       [AdaptationSet |-> <<
          [attrib |-> [mimeType |-> "video/mp4"],
           SegmentTemplate |-> <<[attrib |-> [media |-> TimeMedia],
                                  SegmentTimeline |-> <<[S |-> <<[attrib |-> [d |-> 10]]>>]>>]>>,
           Representation |-> <<Rep("p1v0", "500000")>>]
       >>]
     >>]

\* The server publishes one presentation, in number mode or in timeline mode.
Presentations == {"number", "timeline"}

\* The manifests the server may answer a refresh with (the parsed r.text):
\* between two refreshes the startNumber or the repeat count may change, and
\* the minimumUpdatePeriod attribute may be dropped or emptied.
Manifests(presentation) ==
    IF presentation = "number"
    THEN {NumberManifest(<<>>, 1), NumberManifest(<<"">>, 1), RepOnlyManifest}
         \cup {NumberManifest(<<"PT10S">>, sn) : sn \in 1..MaxStartNumber}
    ELSE {TimelineManifest(<<>>, 0)}
         \cup {TimelineManifest(<<"PT10S">>, r) : r \in 0..MaxRepeat}

\* the status codes of the server
StatusCodes == {200, 404}


\* ------------------------------------------------------------- state

VARIABLES
    pc,            \* where the process is: "start", "Sleeping", "Fetching",
                   \* "Processing", "Downloading", "Terminated", "Crashed"
    i_refresh,     \* DashProxy.i_refresh
    after,         \* the argument of the running refresh_mpd call
    clock,         \* the seconds spent in time.sleep
    mime_type,     \* DashProxy.mime_type
    save_mpds,     \* DashProxy.save_mpds
    mpd,           \* the parsed tree handle_mpd works on (mutated in place)
    original_mpd,  \* copy.deepcopy(mpd) taken by DashProxy.handle_mpd
    r_text,        \* the manifest as the last 2xx response carried it
    as_idx,        \* the loop position of DashProxy.handle_mpd
    rep_idx,
    downloaders,   \* DashProxy.downloaders, in insertion order: <<key, downloader>>
    dl,            \* the frame of the running DashDownloader.handle_mpd
    files,         \* the segment files of the output directory: path ->
                   \* [content, by (the mode that wrote it)]
    out_mpds,      \* the manifest files of the output directory: name -> content
    presentation,  \* what the server publishes
    failures,      \* how many segment requests were answered outside 2xx
    selected,      \* the <<as_idx, rep_idx>> ensure_downloader was called with
                   \* since the last manifest was parsed
    handled,       \* the <<as_idx, rep_idx>> of the downloaders whose handle_mpd
                   \* was called since the last manifest was parsed
    last_op,       \* the request the last step issued, if any
    mpd_gets,      \* how many manifest GETs were issued
    mpd_writes,    \* how many times manifest.mpd was written
    init_gets      \* per <<as_idx, rep_idx>>: the initialization GETs issued

vars == <<pc, i_refresh, after, clock, mime_type, save_mpds, mpd, original_mpd, r_text,
          as_idx, rep_idx, downloaders, dl, files, out_mpds, presentation, failures, selected,
          handled, last_op, mpd_gets, mpd_writes, init_gets>>

\* no manifest parsed yet
NoMpd == [Period |-> <<>>]

\* no DashDownloader.handle_mpd is running
NoFrame == [phase |-> "none", d |-> 0, segments |-> <<>>, k |-> 0, next_time |-> 0,
            index |-> 0, fNumbers |-> 0]

\* the last step issued no request
NoOp == [op |-> "none", kind |-> "", as |-> 0, rep |-> 0, dest |-> "", url |-> "",
         existed |-> FALSE, exc |-> FALSE, status_code |-> 0, wrote |-> FALSE]

\* what requests.get does: it raises (exc) or returns a response
Responses ==
    {[exc |-> FALSE, status_code |-> c] : c \in StatusCodes}
    \cup {[exc |-> TRUE, status_code |-> 0]}

\* r.status_code >= 200 and r.status_code < 300
Is2xx(status_code) == status_code >= 200 /\ status_code < 300

\* a mutant of StatusFailed: no status is taken as a failure
StatusFailed_Never(status_code) == FALSE

\* r.status_code < 200 or r.status_code >= 300 (refresh_mpd)
StatusFailed(status_code) == status_code < 200 \/ status_code >= 300

\* the answers to a segment request that the bound on failures leaves
SegmentResponses ==
    {resp \in Responses : resp.exc \/ Is2xx(resp.status_code) \/ failures < MaxFailures}

\* the failures after the answer resp to a request that was made (op is "GET")
CountFailure(op) ==
    IF op.op = "GET" /\ ~op.exc /\ ~Is2xx(op.status_code) THEN failures + 1 ELSE failures

\* the body the server answers a segment request with: it changes with every
\* refresh
ServerBody == i_refresh

\* DashDownloader.file_exists
file_exists(fs, dest) == Join(dest) \in DOMAIN fs

\* DashDownloader.write: the directory of the output exists, so os.makedirs
\* raises EEXIST and mkdir_p returns True
write(fs, dest, content, kind) ==
    IF mkdir_p("EEXIST") THEN (Join(dest) :> [content |-> content, by |-> kind]) @@ fs ELSE fs

Init ==
    /\ pc = "start"
    /\ i_refresh = 0
    /\ after = 0
    /\ clock = 0
    /\ mime_type \in MimeTypes
    /\ save_mpds \in BOOLEAN
    /\ mpd = NoMpd
    /\ original_mpd = NoMpd
    /\ r_text = NoMpd
    /\ as_idx = 0
    /\ rep_idx = 0
    /\ downloaders = <<>>
    /\ dl = NoFrame
    /\ files = <<>>
    /\ out_mpds = <<>>
    /\ presentation \in Presentations
    /\ failures = 0
    /\ selected = <<>>
    /\ handled = <<>>
    /\ last_op = NoOp
    /\ mpd_gets = 0
    /\ mpd_writes = 0
    /\ init_gets = <<>>

\* ----------------------------------------------------- DashProxy

\* a mutant of MimeSelected: the filter is not applied
MimeSelected_IgnoreFilter(filter, adaptation) == TRUE

\* the mime-type test of DashProxy.handle_mpd: the AdaptationSet is not
\* skipped by `continue`
MimeSelected(filter, adaptation) ==
    ~(filter # "" /\ filter # Get(adaptation.attrib, "mimeType", ""))

\* The loops of DashProxy.handle_mpd over enumerate(AdaptationSet) and
\* enumerate(Representation) of periods[0]: the first position at or after
\* <<a, r>> (counted from 0) that reaches ensure_downloader; a is the number of
\* AdaptationSets when the loops are over.
RECURSIVE NextSelected(_, _, _, _)
NextSelected(m, filter, a, r) ==
    LET sets == Find(Head(Find(m, "Period")), "AdaptationSet")
    IN  IF a >= Len(sets) THEN <<Len(sets), 0>>
        ELSE IF ~MimeSelected(filter, sets[a + 1]) THEN NextSelected(m, filter, a + 1, 0)
        ELSE IF r >= Len(Find(sets[a + 1], "Representation"))
             THEN NextSelected(m, filter, a + 1, 0)
        ELSE <<a, r>>

\* a mutant of LoopDone: the loops are taken to be over at once
LoopDone_AtOnce == TRUE

\* the loops of DashProxy.handle_mpd are over
LoopDone == as_idx >= Len(Find(Head(Find(mpd, "Period")), "AdaptationSet"))

\* str.startswith
StartsWith(toks, prefix) ==
    Len(toks) >= Len(prefix) /\ SubSeq(toks, 1, Len(prefix)) = prefix

\* bool(element): an Element with no child elements is false
ElementTruthy(elem) == \E tag \in DOMAIN elem \ {"attrib", "text"} : elem[tag] # <<>>

\* DashProxy.get_base_url
get_base_url(m) ==
    LET base0 == baseUrl(MpdUrl)
        location == Find(m, "Location")
        base1 == IF location # <<>> THEN baseUrl(Head(location).text) ELSE base0
        baseUrlNode == Find(m, "BaseUrl")
    IN  IF baseUrlNode # <<>> /\ ElementTruthy(Head(baseUrlNode))
        THEN IF \/ StartsWith(Head(baseUrlNode).text, <<"http:", "/", "/">>)
                \/ StartsWith(Head(baseUrlNode).text, <<"https:", "/", "/">>)
             THEN baseUrl(Head(baseUrlNode).text)
             ELSE base1 \o Head(baseUrlNode).text
        ELSE base1

\* rep_addr in self.downloaders
InDownloaders(rep_addr) ==
    \E i \in 1..Len(downloaders) : RepAddrEq(downloaders[i][1], rep_addr)

\* DashDownloader(proxy, rep_addr)
NewDownloader(rep_addr) ==
    [rep_addr |-> rep_addr, mpd_base_url |-> <<>>, initialization_downloaded |-> FALSE]

\* the entry of refresh_mpd(after): i_refresh += 1, then the sleep if after > 0
EnterRefreshMpd(delay) ==
    /\ i_refresh' = i_refresh + 1
    /\ after' = delay
    /\ pc' = IF delay > 0 THEN "Sleeping" ELSE "Fetching"

\* DashProxy.run
Run ==
    /\ pc = "start"
    /\ EnterRefreshMpd(0)
    /\ last_op' = NoOp
    /\ UNCHANGED <<clock, mime_type, save_mpds, mpd, original_mpd, r_text, as_idx, rep_idx,
                   downloaders, dl, files, out_mpds, presentation, failures, selected, handled,
                   mpd_gets, mpd_writes, init_gets>>

\* refresh_mpd: time.sleep(after)
Sleep ==
    /\ pc = "Sleeping"
    /\ clock' = clock + after
    /\ pc' = "Fetching"
    /\ last_op' = NoOp
    /\ UNCHANGED <<i_refresh, after, mime_type, save_mpds, mpd, original_mpd, r_text, as_idx,
                   rep_idx, downloaders, dl, files, out_mpds, presentation, failures,
                   selected, handled, mpd_gets, mpd_writes, init_gets>>

\* refresh_mpd from requests.get(self.mpd) on, and the start of handle_mpd
\* (the deep copy, periods[0], the first loop position). On a status outside
\* 2xx the warning's arguments name retry_interval, which no scope binds (it is
\* an attribute of the class): NameError.
Fetch ==
    /\ pc = "Fetching"
    /\ i_refresh <= MaxRefresh
    /\ \E resp \in Responses, m \in Manifests(presentation) :
         /\ mpd_gets' = mpd_gets + 1
         /\ last_op' = [NoOp EXCEPT !.op = "GET", !.kind = "manifest", !.url = Join(MpdUrl),
                                    !.exc = resp.exc, !.status_code = resp.status_code]
         /\ IF resp.exc
            THEN /\ pc' = "Crashed"
                 /\ UNCHANGED <<i_refresh, after, mpd, original_mpd, r_text, as_idx, rep_idx,
                                selected, handled>>
            ELSE IF StatusFailed(resp.status_code)
            THEN IF "retry_interval" \notin ModuleGlobals
                 THEN /\ pc' = "Crashed"
                      /\ UNCHANGED <<i_refresh, after, mpd, original_mpd, r_text, as_idx,
                                     rep_idx, selected, handled>>
                 ELSE /\ EnterRefreshMpd(retry_interval)
                      /\ UNCHANGED <<mpd, original_mpd, r_text, as_idx, rep_idx, selected,
                                     handled>>
            ELSE /\ mpd' = m
                 /\ r_text' = m
                 /\ original_mpd' = m
                 /\ selected' = <<>>
                 /\ handled' = <<>>
                 /\ UNCHANGED <<i_refresh, after>>
                 /\ IF Find(m, "Period") = <<>>
                    THEN /\ pc' = "Crashed"
                         /\ UNCHANGED <<as_idx, rep_idx>>
                    ELSE /\ pc' = "Processing"
                         /\ as_idx' = NextSelected(m, mime_type, 0, 0)[1]
                         /\ rep_idx' = NextSelected(m, mime_type, 0, 0)[2]
    /\ UNCHANGED <<clock, mime_type, save_mpds, downloaders, dl, files, out_mpds,
                   presentation, failures, mpd_writes, init_gets>>

\* -------------------------------------------------- DashDownloader

\* a mutant of download_template: no test of file_exists before the request
download_template_NoExistsTest(fs, mpd_base_url, kind, rep_addr, template, rep, segment, resp) ==
    LET dest == render_template(template, rep, segment)
        relative_file_path == get_relative_file_path(dest)
        get == [NoOp EXCEPT !.op = "GET", !.kind = kind, !.as = rep_addr.adaptation_set_idx,
                            !.rep = rep_addr.representation_idx,
                            !.dest = Join(relative_file_path),
                            !.existed = file_exists(fs, relative_file_path),
                            !.url = full_url(mpd_base_url, dest),
                            !.exc = resp.exc, !.status_code = resp.status_code]
    IN  IF resp.exc
        THEN [crashed |-> TRUE, files |-> fs, op |-> get]
        ELSE IF Is2xx(resp.status_code)
        THEN [crashed |-> FALSE, files |-> write(fs, relative_file_path, ServerBody, kind),
              op |-> [get EXCEPT !.wrote = TRUE]]
        ELSE [crashed |-> FALSE, files |-> fs, op |-> get]

\* DashDownloader.download_template, for the answer resp of requests.get:
\* whether an exception escaped, the files afterwards, the request made
download_template(fs, mpd_base_url, kind, rep_addr, template, rep, segment, resp) ==
    LET here == [NoOp EXCEPT !.kind = kind, !.as = rep_addr.adaptation_set_idx,
                             !.rep = rep_addr.representation_idx]
    IN  IF RenderKeyError(template, segment)
        THEN [crashed |-> TRUE, files |-> fs, op |-> here]
        ELSE
        LET dest == render_template(template, rep, segment)
            relative_file_path == get_relative_file_path(dest)
            at == [here EXCEPT !.dest = Join(relative_file_path),
                               !.existed = file_exists(fs, relative_file_path)]
        IN  IF file_exists(fs, relative_file_path)
            THEN [crashed |-> FALSE, files |-> fs, op |-> [at EXCEPT !.op = "SKIP"]]
            ELSE
            LET get == [at EXCEPT !.op = "GET", !.url = full_url(mpd_base_url, dest),
                                  !.exc = resp.exc, !.status_code = resp.status_code]
            IN  IF resp.exc
                THEN [crashed |-> TRUE, files |-> fs, op |-> get]
                ELSE IF Is2xx(resp.status_code)
                THEN [crashed |-> FALSE, files |-> write(fs, relative_file_path, ServerBody, kind),
                      op |-> [get EXCEPT !.wrote = TRUE]]
                ELSE [crashed |-> FALSE, files |-> fs, op |-> get]

\* the number-mode parameters of DashDownloader.handle_mpd: each of timescale,
\* duration, startNumber from the AdaptationSet's template (default 1), then
\* from the template segment_template returned if it sets it
NumberParams(m, rep_addr) ==
    LET from_adapt == Head(segment_template_from_adapt(m, rep_addr)).attrib
        st == Head(segment_template(m, rep_addr)).attrib
        t0 == Get(from_adapt, "timescale", 1)
        d0 == Get(from_adapt, "duration", 1)
        s0 == Get(from_adapt, "startNumber", 1)
    IN  [fTimescale   |-> Get(st, "timescale", t0),
         fDuration    |-> Get(st, "duration", d0),
         fStartNumber |-> Get(st, "startNumber", s0)]

\* count one more initialization GET for the representation at <<a, r>>
CountInit(counts, a, r) ==
    (<<a, r>> :> (Get(counts, <<a, r>>, 0) + 1)) @@ counts

\* DashProxy.ensure_downloader for the representation at the loop position,
\* and, for a new downloader, DashDownloader.handle_mpd up to its segment loop:
\* the initialization segment, then the expansion of the timeline (in the
\* tree) or the number-mode parameters.
EnsureDownloader ==
    /\ pc = "Processing"
    /\ ~LoopDone
    /\ selected' = Append(selected, <<as_idx, rep_idx>>)
    /\ LET rep_addr == RepAddr(Len(downloaders) + 1, 0, as_idx, rep_idx)
           next == NextSelected(mpd, mime_type, as_idx, rep_idx + 1)
       IN
       IF InDownloaders(rep_addr)
       THEN /\ as_idx' = next[1]
            /\ rep_idx' = next[2]
            /\ last_op' = NoOp
            /\ UNCHANGED <<pc, mpd, downloaders, dl, files, failures, init_gets, handled>>
       ELSE
       /\ handled' = Append(handled, <<as_idx, rep_idx>>)
       /\ \E resp \in SegmentResponses :
         LET d == Len(downloaders) + 1
             base_url == get_base_url(mpd)
             mediaPresentationDurationInSec ==
                 parse_isoduration(Get(mpd.attrib, "mediaPresentationDuration", <<>>))
             rep == representation(mpd, rep_addr)
             st == segment_template(mpd, rep_addr)
             initialization_template == Get(Head(st).attrib, "initialization", <<>>)
             doInit == initialization_template # <<>>
             got == IF doInit
                    THEN download_template(files, base_url, "init", rep_addr,
                                           initialization_template, rep, <<>>, resp)
                    ELSE [crashed |-> FALSE, files |-> files, op |-> NoOp]
             created == [NewDownloader(rep_addr) EXCEPT
                            !.mpd_base_url = base_url,
                            !.initialization_downloaded = doInit]
         IN
         /\ UNCHANGED <<as_idx, rep_idx>>
         /\ IF st = <<>>
            THEN \* segment_timeline: None has no find
                 /\ pc' = "Crashed"
                 /\ downloaders' = Append(downloaders,
                        <<rep_addr, [NewDownloader(rep_addr) EXCEPT !.mpd_base_url = base_url]>>)
                 /\ last_op' = NoOp
                 /\ UNCHANGED <<mpd, dl, files, failures, init_gets>>
            ELSE
            /\ downloaders' = Append(downloaders, <<rep_addr, created>>)
            /\ files' = got.files
            /\ last_op' = got.op
            /\ failures' = CountFailure(got.op)
            /\ init_gets' = IF got.op.op = "GET" THEN CountInit(init_gets, as_idx, rep_idx)
                            ELSE init_gets
            /\ IF got.crashed
               THEN /\ pc' = "Crashed"
                    /\ UNCHANGED <<mpd, dl>>
               ELSE IF segment_timeline(mpd, rep_addr) # <<>>
               THEN /\ mpd' = SetTimelineS(mpd, rep_addr,
                                           ExpandTimeline(TimelineS(mpd, rep_addr)))
                    /\ dl' = [NoFrame EXCEPT !.phase = "timeline", !.d = d,
                                             !.segments = TimelineS(mpd, rep_addr),
                                             !.k = 1, !.next_time = 0]
                    /\ pc' = "Downloading"
               ELSE IF segment_template_from_adapt(mpd, rep_addr) = <<>>
               THEN \* None has no attrib
                    /\ pc' = "Crashed"
                    /\ UNCHANGED <<mpd, dl>>
               ELSE LET np == NumberParams(mpd, rep_addr)
                    IN  IF np.fTimescale = 0 \/ np.fDuration = 0
                        THEN \* ZeroDivisionError
                             /\ pc' = "Crashed"
                             /\ UNCHANGED <<mpd, dl>>
                        ELSE /\ dl' = [NoFrame EXCEPT
                                         !.phase = "number", !.d = d,
                                         !.index = np.fStartNumber,
                                         !.fNumbers = fNumbersOf(mediaPresentationDurationInSec,
                                                                 np.fDuration, np.fTimescale)]
                             /\ pc' = "Downloading"
                             /\ UNCHANGED mpd
    /\ UNCHANGED <<i_refresh, after, clock, mime_type, save_mpds, original_mpd, r_text,
                   out_mpds, presentation, mpd_gets, mpd_writes>>

\* the address of the downloader whose handle_mpd is running
RunningAddr == downloaders[dl.d][1]

\* one iteration of the timeline loop of DashDownloader.handle_mpd: the k-th S
\* element gets its t, next_time advances, download_template is called
DownloadTimelineSegment ==
    /\ pc = "Downloading"
    /\ dl.phase = "timeline"
    /\ dl.k <= Len(TimelineS(mpd, RunningAddr))
    /\ \E resp \in SegmentResponses :
         LET rep_addr == RunningAddr
             all == TimelineS(mpd, rep_addr)
             segment == all[dl.k]
             current_time == Get(segment.attrib, "t", -1)
             timed == IF current_time = -1
                      THEN [segment EXCEPT !.attrib = ("t" :> dl.next_time) @@ segment.attrib]
                      ELSE segment
             next_time == (IF current_time = -1 THEN dl.next_time ELSE current_time)
                          + Get(timed.attrib, "d", 0)
             media_template == Get(Head(segment_template(mpd, rep_addr)).attrib, "media", <<>>)
             got == download_template(files, downloaders[dl.d][2].mpd_base_url, "timeline",
                                      rep_addr, media_template,
                                      representation(mpd, rep_addr), <<timed>>, resp)
         IN  /\ mpd' = SetTimelineS(mpd, rep_addr, [all EXCEPT ![dl.k] = timed])
             /\ files' = got.files
             /\ last_op' = got.op
             /\ failures' = CountFailure(got.op)
             /\ IF got.crashed
                THEN pc' = "Crashed" /\ UNCHANGED dl
                ELSE pc' = pc /\ dl' = [dl EXCEPT !.k = dl.k + 1, !.next_time = next_time]
    /\ UNCHANGED <<i_refresh, after, clock, mime_type, save_mpds, original_mpd, r_text, as_idx,
                   rep_idx, downloaders, out_mpds, presentation, selected, handled, mpd_gets,
                   mpd_writes, init_gets>>

\* a mutant of NumberStep: a destination that exists is skipped, as in
\* download_template
NumberStep_SkipExisting(rep_addr, index, resp) ==
    LET media_template == Get(Head(segment_template(mpd, rep_addr)).attrib, "media", <<>>)
        dest == NumberDest(media_template, representation(mpd, rep_addr), index)
        get == [NoOp EXCEPT !.op = "GET", !.kind = "number",
                            !.as = rep_addr.adaptation_set_idx,
                            !.rep = rep_addr.representation_idx,
                            !.dest = Join(dest),
                            !.url = full_url(downloaders[dl.d][2].mpd_base_url, dest),
                            !.existed = file_exists(files, dest),
                            !.exc = resp.exc, !.status_code = resp.status_code]
    IN  IF file_exists(files, dest)
        THEN [crashed |-> FALSE, files |-> files, op |-> [get EXCEPT !.op = "SKIP"]]
        ELSE IF resp.exc
        THEN [crashed |-> TRUE, files |-> files, op |-> get]
        ELSE IF Is2xx(resp.status_code)
        THEN [crashed |-> FALSE, files |-> write(files, dest, ServerBody, "number"),
              op |-> [get EXCEPT !.wrote = TRUE]]
        ELSE [crashed |-> FALSE, files |-> files, op |-> get]

\* one iteration of the number loop of DashDownloader.handle_mpd, for the
\* answer resp of requests.get
NumberStep(rep_addr, index, resp) ==
    LET media_template == Get(Head(segment_template(mpd, rep_addr)).attrib, "media", <<>>)
        dest == NumberDest(media_template, representation(mpd, rep_addr), index)
        get == [NoOp EXCEPT !.op = "GET", !.kind = "number",
                            !.as = rep_addr.adaptation_set_idx,
                            !.rep = rep_addr.representation_idx,
                            !.dest = Join(dest),
                            !.url = full_url(downloaders[dl.d][2].mpd_base_url, dest),
                            !.existed = file_exists(files, dest),
                            !.exc = resp.exc, !.status_code = resp.status_code]
    IN  IF NumberKeyError(media_template)
        THEN [crashed |-> TRUE, files |-> files, op |-> NoOp]
        ELSE IF resp.exc
        THEN [crashed |-> TRUE, files |-> files, op |-> get]
        ELSE IF Is2xx(resp.status_code)
        THEN [crashed |-> FALSE, files |-> write(files, dest, ServerBody, "number"),
              op |-> [get EXCEPT !.wrote = TRUE]]
        ELSE [crashed |-> FALSE, files |-> files, op |-> get]

DownloadNumberSegment ==
    /\ pc = "Downloading"
    /\ dl.phase = "number"
    /\ dl.index <= dl.fNumbers
    /\ \E resp \in SegmentResponses :
         LET got == NumberStep(RunningAddr, dl.index, resp)
         IN  /\ files' = got.files
             /\ last_op' = got.op
             /\ failures' = CountFailure(got.op)
             /\ IF got.crashed
                THEN pc' = "Crashed" /\ UNCHANGED dl
                ELSE pc' = pc /\ dl' = [dl EXCEPT !.index = dl.index + 1]
    /\ UNCHANGED <<i_refresh, after, clock, mime_type, save_mpds, mpd, original_mpd, r_text,
                   as_idx, rep_idx, downloaders, out_mpds, presentation, selected, handled, mpd_gets,
                   mpd_writes, init_gets>>

\* DashDownloader.handle_mpd and ensure_downloader return: the loops of
\* DashProxy.handle_mpd go on
ReturnFromDownloader ==
    /\ pc = "Downloading"
    /\ \/ dl.phase = "timeline" /\ dl.k > Len(TimelineS(mpd, RunningAddr))
       \/ dl.phase = "number" /\ dl.index > dl.fNumbers
    /\ pc' = "Processing"
    /\ dl' = NoFrame
    /\ as_idx' = NextSelected(mpd, mime_type, as_idx, rep_idx + 1)[1]
    /\ rep_idx' = NextSelected(mpd, mime_type, as_idx, rep_idx + 1)[2]
    /\ last_op' = NoOp
    /\ UNCHANGED <<i_refresh, after, clock, mime_type, save_mpds, mpd, original_mpd, r_text,
                   downloaders, files, out_mpds, presentation, failures, selected, handled, mpd_gets,
                   mpd_writes, init_gets>>

\* xml.etree.ElementTree.tostring(mpd): the text of a tree, one text per tree
tostring(tree) == [xml |-> tree]

\* a mutant of write_output_mpd: the individual manifests are counted from 0
write_output_mpd_FromZero(tree) ==
    LET content == tostring(tree)
        one == ("manifest.mpd" :> content) @@ out_mpds
    IN  IF save_mpds
        THEN (Join(<<"manifest.", ToString(i_refresh - 1), ".mpd">>) :> content) @@ one
        ELSE one

\* DashProxy.write_output_mpd(tree): the manifest files afterwards
write_output_mpd(tree) ==
    LET content == tostring(tree)
        one == ("manifest.mpd" :> content) @@ out_mpds
    IN  IF save_mpds
        THEN (Join(<<"manifest.", ToString(i_refresh), ".mpd">>) :> content) @@ one
        ELSE one

\* a mutant of Live: the run never ends
Live_Always(m) == TRUE

\* `if minimum_update_period:` for mpd.attrib.get('minimumUpdatePeriod', '')
Live(m) == Get(m.attrib, "minimumUpdatePeriod", "") # ""

\* a mutant of OutputTree: the tree the downloaders worked on is written
OutputTree_Working == mpd

\* the tree DashProxy.handle_mpd hands to write_output_mpd
OutputTree == original_mpd

\* the end of DashProxy.handle_mpd: the output manifest is written, then either
\* refresh_mpd(after=10) is called or the run is over
FinishHandleMpd ==
    /\ pc = "Processing"
    /\ LoopDone
    /\ out_mpds' = write_output_mpd(OutputTree)
    /\ mpd_writes' = mpd_writes + 1
    /\ last_op' = NoOp
    /\ IF Live(mpd)
       THEN EnterRefreshMpd(refresh_after)
       ELSE pc' = "Terminated" /\ UNCHANGED <<i_refresh, after>>
    /\ UNCHANGED <<clock, mime_type, save_mpds, mpd, original_mpd, r_text, as_idx, rep_idx,
                   downloaders, dl, files, presentation, failures, selected, handled, mpd_gets,
                   init_gets>>

Next ==
    \/ Run
    \/ Sleep
    \/ Fetch
    \/ EnsureDownloader
    \/ DownloadTimelineSegment
    \/ DownloadNumberSegment
    \/ ReturnFromDownloader
    \/ FinishHandleMpd

Spec == Init /\ [][Next]_vars

\* ------------------------------------------------------------- claims

\* the address triple of a registry key
Triple(key) == <<key.period_idx, key.adaptation_set_idx, key.representation_idx>>

\* C1 (as claimed): the registry holds at most one downloader per
\* RepresentationAddress triple (period, adaptation set, representation): a
\* second ensure_downloader with an equal triple adds no entry.
C1_OneDownloaderPerAddress ==
    \A i, j \in 1..Len(downloaders) :
        Triple(downloaders[i][1]) = Triple(downloaders[j][1]) => i = j

\* C2 (as claimed): for every representation the GET of its initialization
\* segment is issued at most once over the whole run, whether or not it
\* succeeded.
C2_InitFetchedAtMostOnce ==
    \A addr \in DOMAIN init_gets : init_gets[addr] <= 1

\* C3 (as claimed): after a manifest GET that raised or was answered outside
\* 2xx the controller is not dead: it waits retry_interval seconds and fetches
\* again.
C3_ManifestFailureRetried ==
    (last_op.kind = "manifest" /\ (last_op.exc \/ ~Is2xx(last_op.status_code)))
        => (pc \in {"Sleeping", "Fetching"} /\ after = retry_interval)

\* the last manifest parsed has no minimumUpdatePeriod attribute
VodFetched == r_text # NoMpd /\ "minimumUpdatePeriod" \notin DOMAIN r_text.attrib

\* C4: once a manifest without minimumUpdatePeriod was fetched, the controller
\* never sleeps or fetches again: the manifest GETs stay one per refresh_mpd
\* call (one in all when it is the first manifest), manifest.mpd is not written
\* again before the run is over, and is written exactly once, for this manifest,
\* when the run is over.
C4_VodOneCycle ==
    VodFetched =>
        /\ pc \in {"Processing", "Downloading", "Terminated", "Crashed"}
        /\ mpd_gets = i_refresh
        /\ mpd_writes = IF pc = "Terminated" THEN i_refresh ELSE i_refresh - 1

\* C4 happens: a run whose first manifest is a VOD manifest is over, after one
\* GET and one write
C4_Witness ==
    /\ VodFetched
    /\ pc = "Terminated"
    /\ i_refresh = 1
    /\ mpd_gets = 1
    /\ mpd_writes = 1
    /\ "manifest.mpd" \in DOMAIN out_mpds

\* C5 (as claimed): after processing, the controller sleeps (to fetch again)
\* if and only if the manifest root carries a minimumUpdatePeriod attribute,
\* whatever its value, and is over otherwise.
C5_SleepIffAttribute ==
    /\ pc = "Terminated" => "minimumUpdatePeriod" \notin DOMAIN mpd.attrib
    /\ (pc = "Sleeping" /\ mpd_writes > 0) => "minimumUpdatePeriod" \in DOMAIN mpd.attrib

\* C6: whenever manifest.mpd was written, its content is the manifest as the
\* last 2xx response carried it, not the tree the downloaders expanded and
\* timed; and every manifest file holds one of the server's manifests.
C6_SnapshotIsFetched ==
    /\ (mpd_writes > 0 /\ pc \in {"Sleeping", "Fetching", "Terminated"})
          => out_mpds["manifest.mpd"] = tostring(r_text)
    /\ \A name \in DOMAIN out_mpds :
          out_mpds[name] \in {tostring(m) : m \in Manifests(presentation)}

\* C6 happens: two representations in timeline mode were processed, the tree
\* they worked on holds an inserted S element with a start time assigned, and
\* the manifest written is the one fetched
C6_Witness ==
    /\ pc = "Sleeping"
    /\ mpd_writes > 0
    /\ presentation = "timeline"
    /\ Len(selected) >= 2
    /\ mpd # r_text
    /\ Len(TimelineS(mpd, RepAddr(0, 0, 1, 0))) > Len(TimelineS(r_text, RepAddr(0, 0, 1, 0)))
    /\ \E k \in 1..Len(TimelineS(mpd, RepAddr(0, 0, 1, 0))) :
          /\ "t" \in DOMAIN TimelineS(mpd, RepAddr(0, 0, 1, 0))[k].attrib
          /\ k > Len(TimelineS(r_text, RepAddr(0, 0, 1, 0)))
    /\ out_mpds["manifest.mpd"] = tostring(r_text)

\* the AdaptationSets of Period[0] of the manifest being processed
Sets0 == Find(Head(Find(mpd, "Period")), "AdaptationSet")

\* the mimeType of the AdaptationSet at position a (from 0) among all the
\* AdaptationSets of Period[0] passes the filter
MimeOk(a) ==
    /\ a + 1 \in 1..Len(Sets0)
    /\ mime_type = "" \/ Get(Sets0[a + 1].attrib, "mimeType", "") = mime_type

\* the addresses the filter lets through, by position among all the
\* AdaptationSets and Representations of Period[0]
ExpectedSelected ==
    {<<a, r>> \in (0..(Len(Sets0) - 1)) \X (0..3) :
        MimeOk(a) /\ r < Len(Find(Sets0[a + 1], "Representation"))}

\* C7: only representations of AdaptationSets whose mimeType equals a
\* non-empty filter get a downloader or a request; when the loops are over,
\* every representation of Period[0] that passes the filter (all of them for
\* the empty filter) was selected once, under its position among all the
\* AdaptationSets.
C7_MimeFilter ==
    /\ \A i \in 1..Len(selected) : MimeOk(selected[i][1])
    /\ \A i \in 1..Len(downloaders) : MimeOk(downloaders[i][1].adaptation_set_idx)
    /\ last_op.kind \in {"init", "timeline", "number"} => MimeOk(last_op.as)
    /\ (mpd_writes > 0 /\ pc \in {"Sleeping", "Terminated"})
          => /\ {selected[i] : i \in 1..Len(selected)} = ExpectedSelected
             /\ Len(selected) = Cardinality(ExpectedSelected)

\* C7 happens: with the filter video/mp4 the audio AdaptationSet at position 0
\* was skipped and the video representations were selected as <<1, 0>>, <<1, 1>>
C7_Witness ==
    /\ mime_type = "video/mp4"
    /\ pc = "Sleeping"
    /\ mpd_writes > 0
    /\ Get(Sets0[1].attrib, "mimeType", "") = "audio/mp4"
    /\ selected = << <<1, 0>>, <<1, 1>> >>

\* C8: in timeline mode and for the initialization segment, a destination that
\* exists is skipped, with no request and no write; and a file written in
\* these modes keeps its content in every later step.
C8_SkipExisting ==
    [][/\ (last_op'.kind \in {"init", "timeline"} /\ last_op'.dest \in DOMAIN files)
            => (last_op'.op = "SKIP" /\ ~last_op'.wrote /\ files' = files)
       /\ \A path \in DOMAIN files :
            files[path].by \in {"init", "timeline"}
                => (path \in DOMAIN files' /\ files'[path] = files[path])
      ]_vars

\* C8 happens: on a later refresh a timeline segment written on the first one
\* is skipped, the initialization segment written then being untouched too,
\* while the server now answers with another body
C8_Witness ==
    /\ ServerBody = 2
    /\ last_op.op = "SKIP"
    /\ last_op.kind = "timeline"
    /\ files[last_op.dest] = [content |-> 1, by |-> "timeline"]
    /\ "v0_init.mp4" \in DOMAIN files
    /\ files["v0_init.mp4"] = [content |-> 1, by |-> "init"]

\* C9: in number mode every iteration of the segment loop issues the GET of
\* its segment, whether or not the destination exists, and a 2xx answer makes
\* the body the content of the destination; any other answer leaves the files.
C9_NumberAlwaysFetched ==
    [][(pc = "Downloading" /\ dl.phase = "number" /\ dl.index <= dl.fNumbers)
          => LET id == Get(representation(mpd, RunningAddr).attrib, "id", "")
                 dest == Join(<<id, "_", ToString(dl.index), ".m4s">>)
                 ok == ~last_op'.exc /\ Is2xx(last_op'.status_code)
             IN  /\ last_op'.op = "GET"
                 /\ last_op'.kind = "number"
                 /\ last_op'.dest = dest
                 /\ ok => (dest \in DOMAIN files' /\ files'[dest].content = ServerBody)
                 /\ ~ok => files' = files
      ]_vars

\* C9 happens: on the second refresh a number-mode segment that existed was
\* fetched again and overwritten with the new body
C9_Witness ==
    /\ last_op.kind = "number"
    /\ last_op.op = "GET"
    /\ last_op.existed
    /\ last_op.wrote
    /\ files[last_op.dest] = [content |-> 2, by |-> "number"]

\* C10 (as claimed): when the number loop is over, it has issued exactly
\* totalSegments = floor(presentation seconds / (duration / timescale))
\* downloads, for the indices startNumber .. startNumber + totalSegments - 1.
C10_NumberCount ==
    (pc = "Downloading" /\ dl.phase = "number" /\ dl.index > dl.fNumbers)
        => LET np == NumberParams(mpd, RunningAddr)
               totalSegments ==
                   fNumbersOf(parse_isoduration(Get(mpd.attrib, "mediaPresentationDuration", <<>>)),
                              np.fDuration, np.fTimescale)
           IN  dl.index = np.fStartNumber + totalSegments

\* the value of a number-mode field as claimed: the resolved template's if it
\* sets the field, else the AdaptationSet template's if there is one and it
\* sets the field, else 1
ClaimedField(m, rep_addr, field) ==
    LET st == Head(segment_template(m, rep_addr)).attrib
        as_st == Find(adaptation_set(m, rep_addr), "SegmentTemplate")
    IN  IF field \in DOMAIN st THEN st[field]
        ELSE IF as_st # <<>> /\ field \in DOMAIN Head(as_st).attrib THEN Head(as_st).attrib[field]
        ELSE 1

\* the last downloader created is in number mode with a template of its own,
\* under an AdaptationSet without SegmentTemplate
RepOnlyCase ==
    /\ downloaders # <<>>
    /\ LET rep_addr == downloaders[Len(downloaders)][1]
       IN  /\ TemplateIsOwn(mpd, rep_addr)
           /\ segment_timeline(mpd, rep_addr) = <<>>
           /\ Find(adaptation_set(mpd, rep_addr), "SegmentTemplate") = <<>>

\* C11 (as claimed): in number mode timescale, duration and startNumber are
\* resolved field by field (resolved template, else AdaptationSet template,
\* else 1), and the resolution completes without error also when only the
\* Representation has a SegmentTemplate.
C11_FieldByField ==
    /\ (pc = "Downloading" /\ dl.phase = "number")
          => /\ NumberParams(mpd, RunningAddr) =
                    [fTimescale   |-> ClaimedField(mpd, RunningAddr, "timescale"),
                     fDuration    |-> ClaimedField(mpd, RunningAddr, "duration"),
                     fStartNumber |-> ClaimedField(mpd, RunningAddr, "startNumber")]
             /\ dl.fNumbers =
                    fNumbersOf(parse_isoduration(Get(mpd.attrib, "mediaPresentationDuration", <<>>)),
                               ClaimedField(mpd, RunningAddr, "duration"),
                               ClaimedField(mpd, RunningAddr, "timescale"))
    /\ (pc = "Crashed" /\ last_op.kind # "manifest" /\ ~last_op.exc) => ~RepOnlyCase

\* the times of the r + 1 segments of one entry
EntryTimes(start, d, n) == [j \in 1..n |-> start + (j - 1) * d]

\* the segment times of a list of S entries as claimed: each entry gives
\* r + 1 segments of duration d from its explicit t, or from the cursor
RECURSIVE ClaimedTimes(_, _)
ClaimedTimes(entries, cursor) ==
    IF entries = <<>> THEN <<>>
    ELSE LET e == Head(entries).attrib
             start == IF "t" \in DOMAIN e THEN e.t ELSE cursor
             d == Get(e, "d", 0)
             n == Get(e, "r", 0) + 1
         IN  EntryTimes(start, d, n) \o ClaimedTimes(Tail(entries), start + n * d)

\* sum(r_i + 1) over a list of S entries
RECURSIVE SumRepeats(_)
SumRepeats(entries) ==
    IF entries = <<>> THEN 0
    ELSE Get(Head(entries).attrib, "r", 0) + 1 + SumRepeats(Tail(entries))

\* C12: in timeline mode, for the S entries found when handle_mpd starts, the
\* k-th call of download_template is for the k-th claimed time (explicit t
\* resets the cursor, else the cursor, which advances by d), in order, and the
\* loop ends after exactly sum(r_i + 1) calls.
C12_TimelineTimes ==
    [][/\ (pc = "Downloading" /\ dl.phase = "timeline" /\ pc' = "Downloading")
            => /\ dl.k <= SumRepeats(dl.segments)
               /\ last_op'.op \in {"GET", "SKIP"}
               /\ last_op'.kind = "timeline"
               /\ last_op'.dest =
                     Join(<<Get(representation(mpd, RunningAddr).attrib, "id", ""), "_t",
                            ToString(ClaimedTimes(dl.segments, 0)[dl.k]), ".m4s">>)
       /\ (pc = "Downloading" /\ dl.phase = "timeline" /\ pc' = "Processing")
            => /\ dl.k - 1 = SumRepeats(dl.segments)
               /\ Len(ClaimedTimes(dl.segments, 0)) = SumRepeats(dl.segments)
      ]_vars

\* C12 happens: the timeline loop of a0 is over for the entries
\* (d=10, r=1), (t=50, d=5), (d=5): four calls, the last for time 55
C12_Witness ==
    /\ pc = "Downloading"
    /\ dl.phase = "timeline"
    /\ Len(dl.segments) = 3
    /\ Get(dl.segments[1].attrib, "r", 0) = 1
    /\ dl.k = 5
    /\ dl.k > Len(TimelineS(mpd, RunningAddr))
    /\ last_op.dest = "a0_t55.m4s"

\* C13 (as claimed): when the GET of an initialization or media segment fails,
\* by a status outside 2xx or by a transport failure, nothing is written for
\* it and processing continues with the next item.
C13_FailureSkipped ==
    (/\ last_op.kind \in {"init", "timeline", "number"}
     /\ last_op.op = "GET"
     /\ last_op.exc \/ ~Is2xx(last_op.status_code))
        => /\ ~last_op.wrote
           /\ pc \in {"Processing", "Downloading"}

\* the base URL as claimed: the directory of the manifest URL, replaced by the
\* directory of Location if present, then replaced by an absolute BaseURL or
\* extended by a relative one
ClaimedBase(m) ==
    LET base0 == baseUrl(MpdUrl)
        location == Find(m, "Location")
        base1 == IF location # <<>> THEN baseUrl(Head(location).text) ELSE base0
        node == Find(m, "BaseURL")
    IN  IF node = <<>> THEN base1
        ELSE IF \/ StartsWith(Head(node).text, <<"http:", "/", "/">>)
                \/ StartsWith(Head(node).text, <<"https:", "/", "/">>)
        THEN baseUrl(Head(node).text)
        ELSE base1 \o Head(node).text

\* C14 (as claimed): every initialization and segment URL is the claimed base
\* URL (manifest directory, Location, BaseURL) followed by the destination.
C14_BaseUrlPrecedence ==
    (last_op.kind \in {"init", "timeline", "number"} /\ last_op.op = "GET")
        => last_op.url = Join(ClaimedBase(mpd)) \o last_op.dest

\* the name of the n-th individual manifest
SnapshotName(n) == Join(<<"manifest.", ToString(n), ".mpd">>)

Occurrences(seq, pos) == Cardinality({i \in 1..Len(seq) : seq[i] = pos})

C17_TimelineUnchangedForNext ==
    (pc = "Downloading" /\ dl.phase = "timeline")
        => /\ dl.segments = TimelineS(r_text, RunningAddr)
           /\ Len(TimelineS(mpd, RunningAddr)) = SumRepeats(TimelineS(r_text, RunningAddr))

\* the last step was a manifest GET answered with a 2xx status
ManifestOk(op) == op.kind = "manifest" /\ ~op.exc /\ Is2xx(op.status_code)

SegmentGet(op) == op.kind \in {"init", "timeline", "number"} /\ op.op = "GET"

\* position p comes before position q in the manifest
Before(p, q) == p[1] < q[1] \/ (p[1] = q[1] /\ p[2] < q[2])

\* C19: within a refresh the manifest GET comes first, the representations
\* are processed one after another in manifest order, each segment GET
\* belongs to the representation being processed, manifest.mpd is written
\* once, after the last download of the last selected representation, and the
\* next manifest GET follows that write.
C19_StrictOrder ==
    [][/\ SegmentGet(last_op')
            => /\ pc \in {"Processing", "Downloading"}
               /\ mpd_gets = mpd_writes + 1
               /\ mpd_gets' = mpd_gets /\ mpd_writes' = mpd_writes
               /\ <<last_op'.as, last_op'.rep>> = selected'[Len(selected')]
       /\ mpd_gets' # mpd_gets
            => /\ mpd_gets' = mpd_gets + 1
               /\ mpd_writes = mpd_gets
               /\ dl = NoFrame
       /\ (selected' # selected /\ selected' # <<>>)
            => /\ dl = NoFrame
               /\ Len(selected') = Len(selected) + 1
               /\ SubSeq(selected', 1, Len(selected)) = selected
               /\ \A i \in 1..Len(selected) : Before(selected[i], selected'[Len(selected')])
       /\ mpd_writes' # mpd_writes
            => /\ mpd_writes' = mpd_gets
               /\ mpd_writes = mpd_gets - 1
               /\ dl = NoFrame
               /\ {selected[i] : i \in 1..Len(selected)} = ExpectedSelected
               /\ ~SegmentGet(last_op')
      ]_vars

\* C19 happens: two refreshes of the timeline presentation were completed,
\* each with its three representations processed in order and its write
C19_Witness ==
    /\ pc = "Sleeping"
    /\ mpd_gets = 2
    /\ mpd_writes = 2
    /\ selected = << <<0, 0>>, <<1, 0>>, <<1, 1>> >>
    /\ "a0_t0.m4s" \in DOMAIN files
    /\ "v1_t100.m4s" \in DOMAIN files

====
